---- MODULE Spec2Model ----
(***************************************************************************)
(* Model of yuuka_render.py: the per-guild display-client registry, the   *)
(* websocket registration handshake, the serialized on_message pipeline   *)
(* (gates, session lookup, model call, response decoding, broadcast) and  *)
(* the channel configuration command.                                     *)
(*                                                                         *)
(* The program runs on one asyncio event loop: a handler runs without     *)
(* interruption from one await that really suspends to the next.  Every   *)
(* action below is one such uninterrupted stretch of a handler.           *)
(***************************************************************************)
EXTENDS Integers, Sequences, FiniteSets, TLC

\* ------------------------------------------------------------------ bounds
MaxMsgs == 3
MaxConns == 2

Msgs == 1..MaxMsgs
Conns == 1..MaxConns

\* ------------------------------------------------------------ data domains
\* Guild ids of the chat platform are integers; 0 stands for message.guild
\* being None (a private message).
Guilds == {1, 2}
Channels == {1, 2}

\* str(guild_id): the key on_message and broadcast_to_clients look up.
GuildStr(g) == IF g = 1 THEN "1" ELSE IF g = 2 THEN "2" ELSE "None"

\* Keys a display client puts into the guild_id field of its handshake.
RegKeys == {"1", "2"}

VARIABLES
    clients_by_guild,   \* dict: key -> set of connections (defaultdict(set))
    client_to_guild,    \* dict: connection -> key
    wpc,                \* position of websocket_handler for each connection
    handler_guild,      \* guild_id of each websocket_handler (line 118)
    open,               \* whether the transport of a connection is open
    environ,            \* os.environ["CHANNEL_ID"]
    CHANNEL_ID,         \* the module global CHANNEL_ID
    chat_sessions,      \* dict: guild id -> session object
    history,            \* session object -> number of turns in its history
    locked,             \* processing_lock._locked
    waiters,            \* processing_lock._waiters, in FIFO order
    pc,                 \* position of each call of on_message
    msg,                \* its argument message
    session,            \* its local current_session (0: not yet bound)
    err,                \* the exception e its except clause caught ("": none)
    emitted,            \* what the call did so far that others can see
    inflight,           \* client.send coroutines of gather not yet finished
    failed,             \* client.send coroutines that raised under gather
    last,               \* what the last step received and sent
    broadcast_log       \* the messages handed to broadcast_to_clients, in order

gatewayVars == <<clients_by_guild, client_to_guild, wpc, handler_guild, open>>
configVars == <<environ, CHANNEL_ID>>
sessionVars == <<chat_sessions, history>>
lockVars == <<locked, waiters>>
localVars == <<pc, msg, session, err, emitted>>
sendVars == <<inflight, failed>>
pipelineVars == <<pc, msg, session, err, emitted, inflight, failed,
                  broadcast_log>>
vars == <<clients_by_guild, client_to_guild, wpc, handler_guild, open, environ,
          CHANNEL_ID, chat_sessions, history, locked, waiters, pc, msg,
          session, err, emitted, inflight, failed, last, broadcast_log>>

\* ------------------------------------------------------------ dict helpers
\* d[k] of a defaultdict(set): a missing key is inserted with an empty set.
DefaultGet(d, k) == IF k \in DOMAIN d THEN d ELSE d @@ (k :> {})

\* del d[k]
DictDel(d, k) == [x \in DOMAIN d \ {k} |-> d[x]]

\* d[k] = v of a plain dict
DictSet(d, k, v) == [x \in DOMAIN d \cup {k} |-> IF x = k THEN v ELSE d[x]]

EmptyDict == <<>>

\* ------------------------------------------------- registration handshake
\* The first message of a connection, by what json.loads makes of it:
\*   json  "bad"  : not JSON (json.loads raises JSONDecodeError)
\*         "list" : JSON, but not an object (data.get raises AttributeError)
\*         "dict" : a JSON object
\*   type  the value of its "type" field, "" when the field is absent
\*   guild the value of its "guild_id" field: a key of RegKeys, "absent"
\*         when the field is missing, "unhashable" for a list or an object
FirstMessages ==
    { [json |-> "bad", type |-> "", guild |-> "absent"],
      [json |-> "list", type |-> "", guild |-> "absent"],
      [json |-> "dict", type |-> "register", guild |-> "absent"],
      [json |-> "dict", type |-> "hello", guild |-> "1"],
      [json |-> "dict", type |-> "register", guild |-> "unhashable"] }
    \cup { [json |-> "dict", type |-> "register", guild |-> k] : k \in RegKeys }

NoFirst == [json |-> "none", type |-> "", guild |-> "absent"]

\* A handshake test that looks at the type only.
IsRegistrationByType(data) == data.json = "dict" /\ data.type = "register"

\* line 117: data.get("type") == "register" and "guild_id" in data
IsRegistration(data) ==
    data.json = "dict" /\ data.type = "register" /\ data.guild # "absent"

\* A registration without line 120: the reverse entry is not written.
RegisterForwardOnly(cbg, ctg, k, w) ==
    [cbg |-> [DefaultGet(cbg, k) EXCEPT ![k] = @ \cup {w}],
     ctg |-> ctg]

\* lines 119-120: both inserts, no await between them
RegisterClient(cbg, ctg, k, w) ==
    [cbg |-> [DefaultGet(cbg, k) EXCEPT ![k] = @ \cup {w}],
     ctg |-> DictSet(ctg, w, k)]

\* A finally block without lines 138-139: the emptied set stays in the table.
UnregisterKeepingKey(cbg, ctg, w) ==
    IF w \in DOMAIN ctg
      THEN [cbg |-> [DefaultGet(cbg, ctg[w]) EXCEPT ![ctg[w]] = @ \ {w}],
            ctg |-> DictDel(ctg, w)]
      ELSE [cbg |-> cbg, ctg |-> ctg]

\* lines 134-140: the finally block of websocket_handler
UnregisterClient(cbg, ctg, w) ==
    IF w \in DOMAIN ctg
      THEN LET k == ctg[w]
               removed == [DefaultGet(cbg, k) EXCEPT ![k] = @ \ {w}]
           IN [cbg |-> IF removed[k] = {} THEN DictDel(removed, k) ELSE removed,
               ctg |-> DictDel(ctg, w)]
      ELSE [cbg |-> cbg, ctg |-> ctg]

\* What websocket_handler does with the first message (lines 113-130):
\*   "raise"    json.loads, data.get or the hashing of the key (line 119)
\*              raises; the handler falls through to its finally block
\*   "register" lines 118-124
\*   "close"    lines 127-128
HandshakeOutcome(data) ==
    IF data.json = "bad" THEN "raise"
    ELSE IF data.json = "list" THEN "raise"
    ELSE IF IsRegistration(data)
           THEN IF data.guild = "unhashable" THEN "raise" ELSE "register"
    ELSE "close"

\* --------------------------------------------------------- response text
\* A raw model response is a sequence of lexical tokens.  The fence (three
\* backquotes) is one token; the JSON fence marker (the fence directly
\* followed by the word json) is that token followed by the token "json".
\* The fence token is written "<fence>" here.
Fence == "<fence>"
JsonMarker == <<Fence, "json">>
Ws == {" ", "\n"}
StrToks == {"\"text\"", "\"emotion\"", "\"hi\"", "\"smile\"", "\"zzz\""}
NumToks == {"5"}
NullTok == "null"

\* the Python string a JSON string token decodes to
StrVal(tok) ==
    CASE tok = "\"text\"" -> "text"
      [] tok = "\"emotion\"" -> "emotion"
      [] tok = "\"hi\"" -> "hi"
      [] tok = "\"smile\"" -> "smile"
      [] OTHER -> "zzz"

\* lines 86-95
EMOTION_SPRITE_MAP ==
    [k \in {"neutral", "neutral2", "neutral3", "smile", "smile2", "blush",
            "angry", "angry2"} |->
        CASE k = "neutral" -> "yuuka_neutral.png"
          [] k = "neutral2" -> "yuuka_neutral2.png"
          [] k = "neutral3" -> "yuuka_neutral3.png"
          [] k = "smile" -> "yuuka_smile.png"
          [] k = "smile2" -> "yuuka_smile2.png"
          [] k = "blush" -> "yuuka_blush.png"
          [] k = "angry" -> "yuuka_angry.png"
          [] OTHER -> "yuuka_angry2.png"]

\* s[i:] with i counted from 1
From(s, i) == SubSeq(s, i, Len(s))

\* whether pat occurs in s at position i
MatchAt(s, pat, i) ==
    /\ i >= 1
    /\ i + Len(pat) - 1 <= Len(s)
    /\ SubSeq(s, i, i + Len(pat) - 1) = pat

\* str.find counted from 1: the first position of pat in s, 0 when absent
Find(s, pat) ==
    IF \E i \in 1..Len(s) : MatchAt(s, pat, i)
      THEN CHOOSE i \in 1..Len(s) :
             /\ MatchAt(s, pat, i)
             /\ \A j \in 1..(i - 1) : ~MatchAt(s, pat, j)
      ELSE 0

\* str.rfind counted from 1: the last position of pat in s, 0 when absent
RFind(s, pat) ==
    IF \E i \in 1..Len(s) : MatchAt(s, pat, i)
      THEN CHOOSE i \in 1..Len(s) :
             /\ MatchAt(s, pat, i)
             /\ \A j \in (i + 1)..Len(s) : ~MatchAt(s, pat, j)
      ELSE 0

\* pat in s
Contains(s, pat) == Find(s, pat) # 0

\* s.split(pat)[0]
SplitHead(s, pat) ==
    IF Contains(s, pat) THEN SubSeq(s, 1, Find(s, pat) - 1) ELSE s

\* s.split(pat)[1], for s that contains pat
SplitSecond(s, pat) == SplitHead(From(s, Find(s, pat) + Len(pat)), pat)

\* s.replace(pat, "")
RECURSIVE Remove(_, _)
Remove(s, pat) ==
    IF Contains(s, pat)
      THEN SubSeq(s, 1, Find(s, pat) - 1)
             \o Remove(From(s, Find(s, pat) + Len(pat)), pat)
      ELSE s

\* s.strip()
RECURSIVE LStrip(_)
LStrip(s) == IF s # <<>> /\ Head(s) \in Ws THEN LStrip(Tail(s)) ELSE s

RECURSIVE RStrip(_)
RStrip(s) ==
    IF s # <<>> /\ s[Len(s)] \in Ws THEN RStrip(SubSeq(s, 1, Len(s) - 1)) ELSE s

Strip(s) == RStrip(LStrip(s))

\* ------------------------------------------------------------- json.loads
\* A parsed JSON value: t is its Python type ("str", "num", "null", "list",
\* "dict"), s the string when it is one, f the members of an object as a
\* sequence of <<key, value>> in source order.
JStr(x) == [t |-> "str", s |-> x, f |-> <<>>]
JNum == [t |-> "num", s |-> "", f |-> <<>>]
JNull == [t |-> "null", s |-> "", f |-> <<>>]
JList == [t |-> "list", s |-> "", f |-> <<>>]
JDict(members) == [t |-> "dict", s |-> "", f |-> members]

ParseFail == [ok |-> FALSE, v |-> JNull, next |-> 0]
ParseOk(val, n) == [ok |-> TRUE, v |-> val, next |-> n]

RECURSIVE SkipWs(_, _)
SkipWs(s, i) == IF i <= Len(s) /\ s[i] \in Ws THEN SkipWs(s, i + 1) ELSE i

RECURSIVE ParseValue(_, _)
RECURSIVE ParseArray(_, _, _)
RECURSIVE ParseObject(_, _, _, _)

\* one JSON value starting at or after position i
ParseValue(s, i) ==
    LET j == SkipWs(s, i) IN
    IF j > Len(s) THEN ParseFail
    ELSE IF s[j] \in StrToks THEN ParseOk(JStr(StrVal(s[j])), j + 1)
    ELSE IF s[j] \in NumToks THEN ParseOk(JNum, j + 1)
    ELSE IF s[j] = NullTok THEN ParseOk(JNull, j + 1)
    ELSE IF s[j] = "[" THEN ParseArray(s, j + 1, TRUE)
    ELSE IF s[j] = "{" THEN ParseObject(s, j + 1, <<>>, TRUE)
    ELSE ParseFail

\* the rest of an array, after its "[" (atStart) or after a ","
ParseArray(s, i, atStart) ==
    LET j == SkipWs(s, i) IN
    IF atStart /\ j <= Len(s) /\ s[j] = "]" THEN ParseOk(JList, j + 1)
    ELSE LET e == ParseValue(s, j)
             k == SkipWs(s, e.next)
         IN IF ~e.ok \/ k > Len(s) THEN ParseFail
            ELSE IF s[k] = "," THEN ParseArray(s, k + 1, FALSE)
            ELSE IF s[k] = "]" THEN ParseOk(JList, k + 1)
            ELSE ParseFail

\* the rest of an object, after its "{" (atStart) or after a ","
ParseObject(s, i, members, atStart) ==
    LET j == SkipWs(s, i) IN
    IF atStart /\ j <= Len(s) /\ s[j] = "}" THEN ParseOk(JDict(members), j + 1)
    ELSE IF j > Len(s) \/ s[j] \notin StrToks THEN ParseFail
    ELSE LET c == SkipWs(s, j + 1) IN
         IF c > Len(s) \/ s[c] # ":" THEN ParseFail
         ELSE LET e == ParseValue(s, c + 1)
                  k == SkipWs(s, e.next)
                  more == Append(members, <<StrVal(s[j]), e.v>>)
              IN IF ~e.ok \/ k > Len(s) THEN ParseFail
                 ELSE IF s[k] = "," THEN ParseObject(s, k + 1, more, FALSE)
                 ELSE IF s[k] = "}" THEN ParseOk(JDict(more), k + 1)
                 ELSE ParseFail

\* json.loads(s): ok is FALSE when it raises JSONDecodeError
JsonLoads(s) ==
    LET r == ParseValue(s, 1) IN
    IF r.ok /\ SkipWs(s, r.next) > Len(s) THEN r ELSE ParseFail

\* d.get(key, default) of a parsed object: the last member with that key
DictGet(d, key, default) ==
    IF \E i \in 1..Len(d.f) : d.f[i][1] = key
      THEN d.f[CHOOSE i \in 1..Len(d.f) :
                 /\ d.f[i][1] = key
                 /\ \A j \in (i + 1)..Len(d.f) : d.f[j][1] # key][2]
      ELSE default

\* ------------------------------------------------------ response decoding
\* dialogue_text is either text of the raw response (kind "raw", toks its
\* tokens) or a value taken from the parsed object (kind "json").
RawText(toks) == [kind |-> "raw", toks |-> toks, val |-> JNull]
JsonText(val) == [kind |-> "json", toks |-> <<>>, val |-> val]

\* A candidate taken from the braces even when a JSON fence is there.
JsonCandidateBraces(raw_response) ==
    LET json_start == Find(raw_response, <<"{">>) - 1
        json_end == (RFind(raw_response, <<"}">>) - 1) + 1
    IN IF json_start # -1 /\ json_end > json_start
         THEN SubSeq(raw_response, json_start + 1, json_end)
         ELSE <<>>

\* lines 333-340: the candidate JSON string
JsonCandidate(raw_response) ==
    IF Contains(raw_response, JsonMarker)
      THEN Strip(SplitHead(SplitSecond(raw_response, JsonMarker), <<Fence>>))
      ELSE LET json_start == Find(raw_response, <<"{">>) - 1
               json_end == (RFind(raw_response, <<"}">>) - 1) + 1
           IN IF json_start # -1 /\ json_end > json_start
                THEN SubSeq(raw_response, json_start + 1, json_end)
                ELSE <<>>

\* line 356: the text kept when json.loads raises
StripFences(raw_response) ==
    Strip(Remove(Remove(raw_response, JsonMarker), <<Fence>>))

\* lines 328-357.  raised is TRUE when an exception other than
\* JSONDecodeError and KeyError leaves the inner try: AttributeError of
\* .get on a value that is no dict, TypeError of looking an unhashable
\* emotion up in EMOTION_SPRITE_MAP.
Decode(raw_response) ==
    LET json_str == JsonCandidate(raw_response)
        neutral == EMOTION_SPRITE_MAP["neutral"]
        parsed == JsonLoads(json_str)
        gemini_data == parsed.v
        dialogue_text == DictGet(gemini_data, "text", JStr("..."))
        emotion_key == DictGet(gemini_data, "emotion", JStr("neutral"))
    IN IF json_str # <<>>
         THEN IF ~parsed.ok
                THEN [raised |-> FALSE, text |-> RawText(StripFences(raw_response)),
                      sprite |-> neutral]
              ELSE IF gemini_data.t # "dict"
                THEN [raised |-> TRUE, text |-> RawText(<<>>), sprite |-> neutral]
              ELSE IF emotion_key.t \in {"list", "dict"}
                THEN [raised |-> TRUE, text |-> JsonText(dialogue_text),
                      sprite |-> neutral]
              ELSE [raised |-> FALSE, text |-> JsonText(dialogue_text),
                    sprite |-> IF emotion_key.t = "str"
                                    /\ emotion_key.s \in DOMAIN EMOTION_SPRITE_MAP
                                 THEN EMOTION_SPRITE_MAP[emotion_key.s]
                                 ELSE neutral]
         ELSE [raised |-> FALSE, text |-> RawText(Strip(raw_response)),
               sprite |-> neutral]

\* Responses the model returns in the pipeline.
ModelResponses ==
    { <<Fence, "json", "\n", "{", "\"text\"", ":", "\"hi\"", ",", "\"emotion\"",
        ":", "\"smile\"", "}", "\n", Fence>>,
      <<"{", "\"text\"", ":", "\"hi\"">>,
      <<Fence, "json", "[", "]", Fence>>,
      <<"{", "\"emotion\"", ":", "[", "]", "}">> }

\* ---------------------------------------------------------- initial state
NoMsg == [author |-> "none", guild |-> 0, channel |-> 0, content |-> <<>>,
          attachments |-> 0]

\* Messages on_message is called with.  author "bot" is bot.user; guild 0
\* is a private message; content is the text as a sequence of tokens;
\* attachments counts the image attachments.
UserMessage(g, c, text, n) ==
    [author |-> "user", guild |-> g, channel |-> c, content |-> text,
     attachments |-> n]

MessageInputs ==
    { [author |-> "bot", guild |-> 1, channel |-> 1, content |-> <<"hi">>,
       attachments |-> 0],
      UserMessage(0, 1, <<"hi">>, 0),
      UserMessage(1, 1, <<"hi">>, 0),
      UserMessage(1, 2, <<"hi">>, 0),
      UserMessage(2, 1, <<"hi">>, 0),
      UserMessage(1, 1, <<" ">>, 0),
      UserMessage(1, 1, <<" ">>, 1) }

\* What a step received from outside and handed to the outside:
\*   kind "arrive"   on_message was called with message
\*        "recv"     connection w sent data as its first message
\*        "teardown" connection w, registered under key, was unregistered
\*        "reply"    the model answered message with raw; broadcast tells
\*                   whether broadcast_to_clients was called, with guild id
\*                   key and payload text, sprite, and to is the set of
\*                   connections it sent to
\*        "reset"    reset_conversation was called from the guild and
\*                   channel of message; chat is its answer, "refused" or
\*                   "done"
\*        "model_error"  the model call for message raised
\*        "send_error"   the gather of the broadcast for message raised
\*   chat is what the step sent on message.channel ("" when nothing).
NoEvent ==
    [kind |-> "none", m |-> 0, w |-> 0, message |-> NoMsg, data |-> NoFirst,
     raw |-> <<>>, broadcast |-> FALSE, key |-> "", to |-> {},
     text |-> RawText(<<>>), sprite |-> "", chat |-> ""]

Init ==
    /\ clients_by_guild = EmptyDict
    /\ client_to_guild = EmptyDict
    /\ wpc = [w \in Conns |-> "idle"]
    /\ handler_guild = [w \in Conns |-> "None"]
    /\ open = [w \in Conns |-> FALSE]
    /\ environ = 1
    /\ CHANNEL_ID = 1
    /\ chat_sessions = EmptyDict
    /\ history = EmptyDict
    /\ locked = FALSE
    /\ waiters = <<>>
    /\ pc = [m \in Msgs |-> "new"]
    /\ msg = [m \in Msgs |-> NoMsg]
    /\ session = [m \in Msgs |-> 0]
    /\ err = [m \in Msgs |-> ""]
    /\ emitted = [m \in Msgs |-> <<>>]
    /\ inflight = {}
    /\ failed = {}
    /\ last = NoEvent
    /\ broadcast_log = <<>>

\* ------------------------------------------------------ websocket_handler
\* websockets.serve starts a handler for an accepted connection; the
\* handler suspends in websocket.recv() (lines 110-113).
Connect(w) ==
    /\ wpc[w] = "idle"
    /\ \A v \in Conns : v < w => wpc[v] # "idle"
    /\ wpc' = [wpc EXCEPT ![w] = "recv"]
    /\ open' = [open EXCEPT ![w] = TRUE]
    /\ last' = NoEvent
    /\ UNCHANGED <<clients_by_guild, client_to_guild, handler_guild,
                   configVars,
                   sessionVars, lockVars, pipelineVars>>

\* The first message arrives (lines 113-128, and 130-143 when it raises).
Recv(w, data) ==
    /\ wpc[w] = "recv"
    /\ open[w]
    /\ last' = [NoEvent EXCEPT !.kind = "recv", !.w = w, !.data = data]
    /\ LET outcome == HandshakeOutcome(data)
           reg == RegisterClient(clients_by_guild, client_to_guild, data.guild, w)
           fin == UnregisterClient(clients_by_guild, client_to_guild, w)
       IN \/ /\ outcome = "register"
             /\ clients_by_guild' = reg.cbg
             /\ client_to_guild' = reg.ctg
             /\ wpc' = [wpc EXCEPT ![w] = "wait_closed"]
             /\ handler_guild' = [handler_guild EXCEPT ![w] = data.guild]
             /\ open' = open
          \/ /\ outcome = "close"
             /\ wpc' = [wpc EXCEPT ![w] = "close"]
             /\ UNCHANGED <<clients_by_guild, client_to_guild, handler_guild, open>>
          \/ /\ outcome = "raise"
             /\ clients_by_guild' = fin.cbg
             /\ client_to_guild' = fin.ctg
             /\ wpc' = [wpc EXCEPT ![w] = "done"]
             /\ handler_guild' = [handler_guild EXCEPT ![w] = "None"]
             /\ open' = [open EXCEPT ![w] = FALSE]
    /\ UNCHANGED <<configVars, sessionVars, lockVars, pipelineVars>>

\* The client goes away before it sent anything: recv raises
\* ConnectionClosed and the finally block runs (lines 113, 130-143).
RecvClosed(w) ==
    /\ wpc[w] = "recv"
    /\ LET fin == UnregisterClient(clients_by_guild, client_to_guild, w)
       IN /\ clients_by_guild' = fin.cbg
          /\ client_to_guild' = fin.ctg
    /\ wpc' = [wpc EXCEPT ![w] = "done"]
    /\ handler_guild' = [handler_guild EXCEPT ![w] = "None"]
    /\ open' = [open EXCEPT ![w] = FALSE]
    /\ last' = NoEvent
    /\ UNCHANGED <<configVars, sessionVars, lockVars, pipelineVars>>

\* websocket.close() of line 128 returns; the finally block runs.
CloseReturn(w) ==
    /\ wpc[w] = "close"
    /\ LET fin == UnregisterClient(clients_by_guild, client_to_guild, w)
       IN /\ clients_by_guild' = fin.cbg
          /\ client_to_guild' = fin.ctg
    /\ wpc' = [wpc EXCEPT ![w] = "done"]
    /\ handler_guild' = [handler_guild EXCEPT ![w] = "None"]
    /\ open' = [open EXCEPT ![w] = FALSE]
    /\ last' = NoEvent
    /\ UNCHANGED <<configVars, sessionVars, lockVars, pipelineVars>>

\* The transport of a registered connection closes (the client leaves or
\* the network fails).  From now on client.send raises; the handler is
\* still suspended in wait_closed().
Disconnect(w) ==
    /\ wpc[w] = "wait_closed"
    /\ open[w]
    /\ open' = [open EXCEPT ![w] = FALSE]
    /\ last' = NoEvent
    /\ UNCHANGED <<clients_by_guild, client_to_guild, wpc, handler_guild,
                   configVars,
                   sessionVars, lockVars, pipelineVars>>

\* wait_closed() of line 124 returns; the finally block runs (lines 132-143).
Teardown(w) ==
    /\ wpc[w] = "wait_closed"
    /\ ~open[w]
    /\ LET fin == UnregisterClient(clients_by_guild, client_to_guild, w)
       IN /\ clients_by_guild' = fin.cbg
          /\ client_to_guild' = fin.ctg
    /\ wpc' = [wpc EXCEPT ![w] = "done"]
    /\ handler_guild' = [handler_guild EXCEPT ![w] = "None"]
    /\ last' = [NoEvent EXCEPT !.kind = "teardown", !.w = w,
                                !.key = client_to_guild[w]]
    /\ UNCHANGED <<open, configVars, sessionVars, lockVars, pipelineVars>>

\* ------------------------------------------------------------ set_channel
\* lines 204-211: the global and, through update_env_variable, the
\* environment variable that on_message reads.
set_channel(channel) ==
    /\ CHANNEL_ID' = channel
    /\ environ' = channel
    /\ last' = NoEvent
    /\ UNCHANGED <<gatewayVars, sessionVars, lockVars, pipelineVars>>

\* ------------------------------------------------------------- on_message
\* line 273
OwnOrPrivate(message) == message.author = "bot" \/ message.guild = 0

\* lines 276-277: the active channel is read from the environment each time
OffChannel(message, env) == message.channel # env

\* A presence check that lets every guild through.
HasClientsAlways(cbg, guild_id_str) == TRUE

\* line 283: a membership test, which inserts nothing into the defaultdict
HasClients(cbg, guild_id_str) == guild_id_str \in DOMAIN cbg

\* An acquire that looks at the waiters only, not at the holder.
CanAcquireUnheld(isLocked, queue) == queue = <<>>

\* An unfair acquire: a free lock is taken even when somebody waits for it.
CanAcquireBarging(isLocked, queue) == ~isLocked

\* asyncio.Lock.acquire takes the lock at once only when it is free and
\* nobody waits for it; otherwise the caller joins the FIFO of waiters.
CanAcquire(isLocked, queue) == ~isLocked /\ queue = <<>>

\* asyncio.Lock.release wakes the first waiter; the woken waiter is the one
\* that takes the lock when it resumes.
NextWaiter(queue) == Head(queue)

\* the waiter removes its future from the queue when it resumes
RemoveWaiter(queue, m) == SelectSeq(queue, LAMBDA x : x # m)

\* A broadcast that ignores the guild id and sends to every connection.
broadcast_to_everyone(cbg, guild_id) == UNION {cbg[k] : k \in DOMAIN cbg}

\* lines 98-105: the connections broadcast_to_clients sends to
broadcast_to_clients(cbg, guild_id) ==
    IF guild_id \in DOMAIN cbg THEN cbg[guild_id] ELSE {}

\* The session objects something still refers to: the values of
\* chat_sessions and the current_session of the running calls.
Referenced(sessions, locals) ==
    ({sessions[g] : g \in DOMAIN sessions} \cup {locals[m] : m \in Msgs}) \ {0}

\* An object nothing refers to is reclaimed: hist without those objects.
Collect(hist, sessions, locals) ==
    [s \in DOMAIN hist \cap Referenced(sessions, locals) |-> hist[s]]

\* The identity of a new object differs from that of every existing one.
FreshSession(hist) ==
    CHOOSE s \in 1..(Cardinality(DOMAIN hist) + 1) :
        s \notin DOMAIN hist /\ \A j \in 1..(s - 1) : j \in DOMAIN hist

\* model.start_chat(history=[]): a new session object
NewSession == FreshSession(history)

\* A session test that never finds the session of the guild.
NoSessionEver(sessions, g) == TRUE

\* line 288: guild_id not in chat_sessions
NoSession(sessions, g) == g \notin DOMAIN sessions

\* Positions of on_message inside "async with processing_lock".
InSection == {"fetch", "typing", "calling", "gather", "reporting"}

\* lines 293-296
IsEmpty(message) == Strip(message.content) = <<>> /\ message.attachments = 0

\* on_message returns, or an exception leaves it: its locals are gone, and
\* so is the gather it awaited.  Sends of that gather that are still
\* running go on, but nothing in the program looks at them any more.
Returned(m) ==
    /\ pc' = [pc EXCEPT ![m] = "returned"]
    /\ msg' = [msg EXCEPT ![m] = NoMsg]
    /\ session' = [session EXCEPT ![m] = 0]
    /\ err' = [err EXCEPT ![m] = ""]
    /\ emitted' = [emitted EXCEPT ![m] = <<>>]
    /\ failed' = {p \in failed : p[1] # m}
    /\ inflight' = {p \in inflight : p[1] # m}

\* Lines 288-311, run with the lock just taken: bind the session of the
\* guild, return on an empty message (which releases the lock), else go on
\* to the first await.
EnterSection(m, message) ==
    LET g == message.guild
        create == NoSession(chat_sessions, g)
        sessions == IF create THEN DictSet(chat_sessions, g, NewSession)
                    ELSE chat_sessions
    IN /\ chat_sessions' = sessions
       /\ history' = IF create THEN DictSet(history, NewSession, 0) ELSE history
       /\ IF IsEmpty(message)
            THEN /\ Returned(m)
                 /\ locked' = FALSE
            ELSE /\ pc' = [pc EXCEPT ![m] = IF message.attachments > 0
                                              THEN "fetch" ELSE "typing"]
                 /\ msg' = [msg EXCEPT ![m] = message]
                 /\ session' = [session EXCEPT ![m] = sessions[g]]
                 /\ locked' = TRUE
                 /\ UNCHANGED <<err, emitted, failed, inflight>>

\* on_message is called with a message (lines 272-311).
Arrive(m, message) ==
    /\ pc[m] = "new"
    /\ \A n \in Msgs : n < m => pc[n] # "new"
    /\ last' = [NoEvent EXCEPT !.kind = "arrive", !.m = m, !.message = message]
    /\ IF OwnOrPrivate(message) \/ OffChannel(message, environ)
            \/ ~HasClients(clients_by_guild, GuildStr(message.guild))
         THEN /\ Returned(m)
              /\ UNCHANGED <<sessionVars, lockVars>>
       ELSE IF CanAcquire(locked, waiters)
         THEN /\ EnterSection(m, message)
              /\ waiters' = waiters
       ELSE /\ pc' = [pc EXCEPT ![m] = "waiting"]
            /\ msg' = [msg EXCEPT ![m] = message]
            /\ waiters' = Append(waiters, m)
            /\ UNCHANGED <<sessionVars, locked, session, err, emitted, failed,
                           inflight>>
    /\ UNCHANGED <<gatewayVars, configVars, broadcast_log>>

\* A waiter woken by release resumes, takes the lock and runs lines 288-311.
WakeUp(m) ==
    /\ pc[m] = "waiting"
    /\ ~locked
    /\ waiters # <<>>
    /\ m = NextWaiter(waiters)
    /\ waiters' = RemoveWaiter(waiters, m)
    /\ EnterSection(m, msg[m])
    /\ last' = NoEvent
    /\ UNCHANGED <<gatewayVars, configVars, broadcast_log>>

\* attachment.read() of line 315 returns or raises; either way the loop
\* goes on (lines 312-320) and on_message reaches line 322.
AttachmentRead(m) ==
    /\ pc[m] = "fetch"
    /\ pc' = [pc EXCEPT ![m] = "typing"]
    /\ last' = NoEvent
    /\ UNCHANGED <<gatewayVars, configVars, sessionVars, lockVars, msg, session,
                   err, emitted, sendVars, broadcast_log>>

\* message.channel.typing() is entered (line 322).  When its request
\* succeeds the model call starts in a worker thread (line 324); when it
\* raises, the exception leaves on_message and the lock is released.
TypingEnter(m, ok) ==
    /\ pc[m] = "typing"
    /\ IF ok
         THEN /\ pc' = [pc EXCEPT ![m] = "calling"]
              /\ emitted' = [emitted EXCEPT ![m] = Append(@, "call")]
              /\ UNCHANGED <<locked, msg, session, err, failed, inflight>>
         ELSE /\ Returned(m)
              /\ locked' = FALSE
    /\ history' = Collect(history, chat_sessions, session')
    /\ last' = NoEvent
    /\ UNCHANGED <<gatewayVars, configVars, chat_sessions, waiters, broadcast_log>>

\* A model call whose exception leaves on_message unreported.
ModelRaiseUnreported(m) ==
    /\ pc[m] = "calling"
    /\ Returned(m)
    /\ locked' = FALSE
    /\ last' = [NoEvent EXCEPT !.kind = "model_error", !.m = m,
                                !.message = msg[m]]
    /\ UNCHANGED <<gatewayVars, configVars, sessionVars, waiters, broadcast_log>>

\* The model call raises (lines 324-325, 361-363): the handler starts the
\* error report on the chat channel.
ModelRaise(m) ==
    /\ pc[m] = "calling"
    /\ pc' = [pc EXCEPT ![m] = "reporting"]
    /\ err' = [err EXCEPT ![m] = "model"]
    /\ emitted' = [emitted EXCEPT ![m] = Append(@, "error")]
    /\ last' = [NoEvent EXCEPT !.kind = "model_error", !.m = m, !.message = msg[m],
                                !.chat = "error"]
    /\ UNCHANGED <<gatewayVars, configVars, sessionVars, lockVars, msg, session,
                   sendVars, broadcast_log>>

\* The model call returns raw_response (lines 324-359 and 98-105): the
\* session gains a turn, the response is decoded and the payload handed to
\* broadcast_to_clients, which starts one send per registered connection.
\* With no connection to send to, broadcast_to_clients returns at once and
\* so does on_message.
ModelReturn(m, raw_response) ==
    /\ pc[m] = "calling"
    /\ LET d == Decode(raw_response)
           guild_id_str == GuildStr(msg[m].guild)
           clients == broadcast_to_clients(clients_by_guild, guild_id_str)
           reply == [NoEvent EXCEPT !.kind = "reply", !.m = m, !.message = msg[m],
                                    !.raw = raw_response]
       IN IF d.raised
            THEN /\ pc' = [pc EXCEPT ![m] = "reporting"]
                 /\ err' = [err EXCEPT ![m] = "decode"]
                 /\ emitted' = [emitted EXCEPT ![m] = Append(@, "error")]
                 /\ last' = [reply EXCEPT !.chat = "error"]
                 /\ UNCHANGED <<locked, msg, session, sendVars, broadcast_log>>
            ELSE /\ last' = [reply EXCEPT !.broadcast = TRUE, !.key = guild_id_str,
                                          !.to = clients, !.text = d.text,
                                          !.sprite = d.sprite]
                 /\ broadcast_log' = Append(broadcast_log, m)
                 /\ IF clients = {}
                      THEN /\ Returned(m)
                           /\ locked' = FALSE
                      ELSE /\ inflight' = inflight \cup {<<m, w>> : w \in clients}
                           /\ pc' = [pc EXCEPT ![m] = "gather"]
                           /\ emitted' = [emitted EXCEPT ![m] = Append(@, "broadcast")]
                           /\ UNCHANGED <<locked, msg, session, err, failed>>
    /\ history' = Collect([history EXCEPT ![session[m]] = @ + 1], chat_sessions,
                          session')
    /\ UNCHANGED <<gatewayVars, configVars, chat_sessions, waiters>>

\* One client.send of the gather of line 105 finishes: the payload is
\* delivered, or the send raises because the transport of the connection
\* is closed.  gather keeps the exception for on_message, which awaits it.
SendDone(m, w) ==
    /\ <<m, w>> \in inflight
    /\ inflight' = inflight \ {<<m, w>>}
    /\ failed' = IF ~open[w] /\ pc[m] = "gather" THEN failed \cup {<<m, w>>}
                 ELSE failed
    /\ last' = NoEvent
    /\ UNCHANGED <<gatewayVars, configVars, sessionVars, lockVars, localVars,
                   broadcast_log>>

\* All sends finished without an exception: gather returns, on_message
\* leaves both context managers and the lock is released (lines 105-106, 359).
GatherReturn(m) ==
    /\ pc[m] = "gather"
    /\ \A w \in Conns : <<m, w>> \notin inflight /\ <<m, w>> \notin failed
    /\ Returned(m)
    /\ locked' = FALSE
    /\ history' = Collect(history, chat_sessions, session')
    /\ last' = NoEvent
    /\ UNCHANGED <<gatewayVars, configVars, chat_sessions, waiters, broadcast_log>>

\* gather re-raises the first exception of a send while the other sends go
\* on; the except clause of line 361 starts the error report.
GatherRaise(m) ==
    /\ pc[m] = "gather"
    /\ \E w \in Conns : <<m, w>> \in failed
    /\ pc' = [pc EXCEPT ![m] = "reporting"]
    /\ err' = [err EXCEPT ![m] = "send"]
    /\ emitted' = [emitted EXCEPT ![m] = Append(@, "error")]
    /\ last' = [NoEvent EXCEPT !.kind = "send_error", !.m = m, !.message = msg[m],
                                !.chat = "error"]
    /\ UNCHANGED <<gatewayVars, configVars, sessionVars, lockVars, msg, session,
                   sendVars, broadcast_log>>

\* An error report after which the lock stays held.
ReportReturnHoldingLock(m) ==
    /\ pc[m] = "reporting"
    /\ Returned(m)
    /\ locked' = locked
    /\ history' = Collect(history, chat_sessions, session')
    /\ last' = NoEvent
    /\ UNCHANGED <<gatewayVars, configVars, chat_sessions, waiters, broadcast_log>>

\* message.channel.send of line 363 returns, or raises and the exception
\* leaves on_message; either way the lock is released.
ReportReturn(m) ==
    /\ pc[m] = "reporting"
    /\ Returned(m)
    /\ locked' = FALSE
    /\ history' = Collect(history, chat_sessions, session')
    /\ last' = NoEvent
    /\ UNCHANGED <<gatewayVars, configVars, chat_sessions, waiters, broadcast_log>>

\* ------------------------------------------------------ reset_conversation
\* A reset that empties the history of the session object in place.
reset_in_place(g, channel) ==
    LET interaction == UserMessage(g, channel, <<>>, 0)
        fresh == FreshSession(history)
    IN /\ IF channel # environ
            THEN /\ last' = [NoEvent EXCEPT !.kind = "reset",
                                            !.message = interaction,
                                            !.chat = "refused"]
                 /\ UNCHANGED sessionVars
            ELSE /\ chat_sessions' = IF g \in DOMAIN chat_sessions
                                       THEN chat_sessions
                                       ELSE DictSet(chat_sessions, g, fresh)
                 /\ history' = DictSet(history, chat_sessions'[g], 0)
                 /\ last' = [NoEvent EXCEPT !.kind = "reset",
                                            !.message = interaction,
                                            !.chat = "done"]
       /\ UNCHANGED <<gatewayVars, configVars, lockVars, pipelineVars>>

\* lines 221-234, called for guild g from the channel with id channel: off
\* the active channel the command is refused (lines 223-229); otherwise
\* chat_sessions[g] is bound to a new session object.  The lock is not
\* taken.  The new object exists before the old one is released, and the
\* old one lives on while a running call holds it.
reset_conversation(g, channel) ==
    LET interaction == UserMessage(g, channel, <<>>, 0)
        fresh == FreshSession(history)
        sessions == DictSet(chat_sessions, g, fresh)
    IN /\ IF channel # environ
            THEN /\ last' = [NoEvent EXCEPT !.kind = "reset",
                                            !.message = interaction,
                                            !.chat = "refused"]
                 /\ UNCHANGED sessionVars
            ELSE /\ chat_sessions' = sessions
                 /\ history' = Collect(DictSet(history, fresh, 0), sessions,
                                       session)
                 /\ last' = [NoEvent EXCEPT !.kind = "reset",
                                            !.message = interaction,
                                            !.chat = "done"]
       /\ UNCHANGED <<gatewayVars, configVars, lockVars, pipelineVars>>

\* ------------------------------------------------------------------- spec
Next ==
    \/ \E w \in Conns : Connect(w)
    \/ \E w \in Conns, data \in FirstMessages : Recv(w, data)
    \/ \E w \in Conns : RecvClosed(w)
    \/ \E w \in Conns : CloseReturn(w)
    \/ \E w \in Conns : Disconnect(w)
    \/ \E w \in Conns : Teardown(w)
    \/ \E channel \in Channels : set_channel(channel)
    \/ \E m \in Msgs, message \in MessageInputs : Arrive(m, message)
    \/ \E m \in Msgs : WakeUp(m)
    \/ \E m \in Msgs : AttachmentRead(m)
    \/ \E m \in Msgs, ok \in BOOLEAN : TypingEnter(m, ok)
    \/ \E m \in Msgs : ModelRaise(m)
    \/ \E m \in Msgs, raw_response \in ModelResponses : ModelReturn(m, raw_response)
    \/ \E m \in Msgs, w \in Conns : SendDone(m, w)
    \/ \E m \in Msgs : GatherReturn(m)
    \/ \E m \in Msgs : GatherRaise(m)
    \/ \E m \in Msgs : ReportReturn(m)

Spec == Init /\ [][Next]_vars

\* The program with the reset command.  Its behaviours are explored from
\* the state the program is in after the first connection sent a first
\* message that is not JSON and the first message was the bot's own, that
\* is after
\*   Connect(1), Recv(1, not JSON), Arrive(1, message of the bot)
\* and a step that records no event.
AfterFirst ==
    /\ clients_by_guild = EmptyDict
    /\ client_to_guild = EmptyDict
    /\ wpc = [w \in Conns |-> IF w = 1 THEN "done" ELSE "idle"]
    /\ handler_guild = [w \in Conns |-> "None"]
    /\ open = [w \in Conns |-> FALSE]
    /\ environ = 1
    /\ CHANNEL_ID = 1
    /\ chat_sessions = EmptyDict
    /\ history = EmptyDict
    /\ locked = FALSE
    /\ waiters = <<>>
    /\ pc = [m \in Msgs |-> IF m = 1 THEN "returned" ELSE "new"]
    /\ msg = [m \in Msgs |-> NoMsg]
    /\ session = [m \in Msgs |-> 0]
    /\ err = [m \in Msgs |-> ""]
    /\ emitted = [m \in Msgs |-> <<>>]
    /\ inflight = {}
    /\ failed = {}
    /\ last = NoEvent
    /\ broadcast_log = <<>>

NextReset ==
    \/ Next
    \/ \E g \in Guilds, channel \in Channels : reset_conversation(g, channel)

SpecReset == AfterFirst /\ [][NextReset]_vars

\* -------------------------------------------------------------- properties
\* The connections whose handler has registered them under key k and has
\* not yet run its finally block.
RegisteredUnder(k) ==
    {w \in Conns : wpc[w] = "wait_closed" /\ handler_guild[w] = k}

\* C1: in every reachable state at most one call of on_message is inside
\* the section guarded by processing_lock (session lookup, attachment
\* reads, model call, decoding, broadcast, error report), whatever the
\* guilds of the messages; the lock is held exactly while a call is inside.
MutualExclusion ==
    /\ Cardinality({m \in Msgs : pc[m] \in InSection}) <= 1
    /\ locked <=> \E m \in Msgs : pc[m] \in InSection

\* A second message, of another guild, queues behind one whose model call
\* is running.
MutualExclusionWitness ==
    \E m, n \in Msgs : /\ pc[m] = "calling"
                       /\ pc[n] = "waiting"
                       /\ msg[m].guild # msg[n].guild

\* C2: the messages handed to broadcast_to_clients appear in broadcast_log
\* in the order in which they arrived at on_message (Arrive takes messages
\* in the order of their numbers), and no message is inside the section or
\* has been broadcast while one that arrived before it still waits for the
\* lock.
BroadcastOrder ==
    /\ \A i, j \in 1..Len(broadcast_log) :
          i < j => broadcast_log[i] < broadcast_log[j]
    /\ \A m, n \in Msgs : (m < n /\ pc[m] = "waiting") =>
          /\ pc[n] \notin InSection
          /\ \A i \in 1..Len(broadcast_log) : broadcast_log[i] # n

\* Two messages were broadcast, and the later one had to wait for the lock
\* behind another message.
BroadcastOrderWitness ==
    /\ Len(broadcast_log) >= 2
    /\ waiters # <<>>

\* C3: a key is in clients_by_guild exactly when some connection is
\* registered under it, and then its set is exactly those connections (so
\* never empty); no step of on_message or broadcast_to_clients adds a key.
RegistryNonEmpty ==
    /\ \A k \in DOMAIN clients_by_guild :
          clients_by_guild[k] # {} /\ clients_by_guild[k] = RegisteredUnder(k)
    /\ \A k \in RegKeys :
          k \in DOMAIN clients_by_guild <=> RegisteredUnder(k) # {}

\* The last connection of a guild has just been unregistered, and its key
\* is gone from the table.
RegistryNonEmptyWitness ==
    /\ last.kind = "teardown"
    /\ last.key \in RegKeys
    /\ last.key \notin DOMAIN clients_by_guild

\* C4: when a reply to a message of guild g is handed to
\* broadcast_to_clients, the connections it starts a send to are exactly
\* those registered under str(g) at that moment, one send each.
BroadcastTargets ==
    (last.kind = "reply" /\ last.broadcast) =>
        /\ last.key = GuildStr(last.message.guild)
        /\ last.to = RegisteredUnder(last.key)
        /\ \A w \in last.to : <<last.m, w>> \in inflight

\* A reply goes to the connection of its guild while a connection of
\* another guild is registered too.
BroadcastTargetsWitness ==
    /\ last.kind = "reply" /\ last.broadcast
    /\ last.to # {}
    /\ \E k \in RegKeys : k # last.key /\ RegisteredUnder(k) # {}

\* The gates of lines 273-285, stated on the state a message arrives in:
\* CHANNEL_ID is the channel the last set_channel configured.
Gated(message) ==
    \/ message.author = "bot"
    \/ message.guild = 0
    \/ message.channel # CHANNEL_ID
    \/ RegisteredUnder(GuildStr(message.guild)) = {}

NoDisplayNotice ==
    ( /\ last.kind = "arrive"
      /\ last.message.author = "user"
      /\ last.message.guild # 0
      /\ last.message.channel = CHANNEL_ID
      /\ RegisteredUnder(GuildStr(last.message.guild)) = {} )
    => last.chat = "notice"

\* C7: when the model call for a message raises, that step starts exactly
\* one error report on the channel of the message, the message is never
\* handed to broadcast_to_clients and no send is started for it; the lock
\* is held only while a call is inside the section, so it is free again
\* once the report is out.
ModelErrorReported ==
    /\ last.kind = "model_error" =>
          /\ last.chat = "error"
          /\ pc[last.m] = "reporting"
          /\ emitted[last.m] = <<"call", "error">>
    /\ \A m \in Msgs : err[m] = "model" =>
          /\ pc[m] = "reporting"
          /\ emitted[m] = <<"call", "error">>
          /\ \A i \in 1..Len(broadcast_log) : broadcast_log[i] # m
          /\ \A w \in Conns : <<m, w>> \notin inflight
    /\ locked => \E m \in Msgs : pc[m] \in InSection

\* The model call of one message has raised while the next message waits
\* for the lock.
ModelErrorReportedWitness ==
    \E m, n \in Msgs : /\ err[m] = "model"
                       /\ last.kind = "model_error" /\ last.m = m
                       /\ pc[n] = "waiting"

\* C8: every raw response of a successful model call ends in a broadcast
\* of a payload, and nothing is reported on the chat channel.
DecodeNeverRaises ==
    last.kind = "reply" => (last.broadcast /\ last.chat = "")

\* C9: a message one of whose sends failed reports no error on the chat
\* channel.
DeliveryFailureNotRaised ==
    \A m \in Msgs :
        (\E w \in Conns : <<m, w>> \in failed) =>
            (err[m] = "" /\ \A i \in 1..Len(emitted[m]) : emitted[m][i] # "error")

\* The first messages C10 speaks of: not a JSON object, another type than
\* "register", or no guild_id field.
InvalidFirst(data) ==
    data.json # "dict" \/ data.type # "register" \/ data.guild = "absent"

\* connection w is in neither table
Unregistered(w) ==
    /\ w \notin DOMAIN client_to_guild
    /\ \A k \in DOMAIN clients_by_guild : w \notin clients_by_guild[k]

\* C10: a connection whose first message is invalid is in neither table
\* from that step on; the step that receives the message and the step that
\* closes the connection leave both tables and all other connections as
\* they are, and the connection ends closed.
InvalidHandshake ==
    [][/\ (last'.kind = "recv" /\ InvalidFirst(last'.data)) =>
             /\ wpc'[last'.w] \in {"close", "done"}
             /\ clients_by_guild' = clients_by_guild
             /\ client_to_guild' = client_to_guild
             /\ \A v \in Conns \ {last'.w} :
                   /\ wpc'[v] = wpc[v]
                   /\ open'[v] = open[v]
                   /\ handler_guild'[v] = handler_guild[v]
       /\ \A w \in Conns : wpc[w] = "close" =>
             /\ Unregistered(w)
             /\ wpc'[w] \in {"close", "done"}
             /\ wpc'[w] = "done" =>
                   /\ ~open'[w]
                   /\ clients_by_guild' = clients_by_guild
                   /\ client_to_guild' = client_to_guild
       /\ \A w \in Conns : wpc'[w] \in {"close", "done"} => Unregistered(w)'
      ]_vars

\* An invalid first message has just been received while another
\* connection is registered.
InvalidHandshakeWitness ==
    /\ last.kind = "recv"
    /\ InvalidFirst(last.data)
    /\ wpc[last.w] = "close"
    /\ \E v \in Conns : wpc[v] = "wait_closed" /\ ~Unregistered(v)

\* C11: after reset_conversation was called for a guild, from whatever
\* channel, chat_sessions maps the guild to a session with no turns.
ResetYieldsEmptySession ==
    last.kind = "reset" =>
        /\ last.message.guild \in DOMAIN chat_sessions
        /\ chat_sessions[last.message.guild] \in DOMAIN history
        /\ history[chat_sessions[last.message.guild]] = 0

\* the step is a reset of guild g that was carried out
IsResetOf(g) ==
    last'.kind = "reset" /\ last'.chat = "done" /\ last'.message.guild = g

\* the step takes message m into the section
Enters(m) == pc[m] \in {"new", "waiting"} /\ pc'[m] \in InSection

\* the step takes the lock for message m, a message of guild g
TakesLockFor(m, g) ==
    \/ pc[m] = "new" /\ pc'[m] \notin {"new", "waiting"}
                     /\ last'.kind = "arrive" /\ last'.message.guild = g
    \/ pc[m] = "waiting" /\ pc'[m] # "waiting" /\ msg[m].guild = g

\* C12: in every step that is not a reset of guild g, the session object
\* bound to g stays bound to g and its history does not shrink; the
\* history of a session grows only by one turn, in the step in which a
\* model call made on that session returns, and that call is for a message
\* of the guild unless the session was replaced meanwhile; a binding for g
\* appears, with an empty history, only when on_message takes the lock
\* for a message of g; a call binds the session of its guild when it enters and keeps
\* it.
SessionAccumulates ==
    [][/\ \A g \in DOMAIN chat_sessions : ~IsResetOf(g) =>
             /\ g \in DOMAIN chat_sessions'
             /\ chat_sessions'[g] = chat_sessions[g]
             /\ chat_sessions[g] \in DOMAIN history'
             /\ history'[chat_sessions[g]] >= history[chat_sessions[g]]
             /\ history'[chat_sessions[g]] # history[chat_sessions[g]] =>
                   /\ last'.kind = "reply"
                   /\ msg[last'.m].guild = g
       /\ \A s \in DOMAIN history \cap DOMAIN history' :
             history'[s] # history[s] =>
                /\ history'[s] = history[s] + 1
                /\ last'.kind = "reply"
                /\ session[last'.m] = s
       /\ last'.kind = "reply" =>
             /\ session[last'.m] \in DOMAIN history
             /\ session[last'.m] \in DOMAIN history' =>
                   history'[session[last'.m]] = history[session[last'.m]] + 1
       /\ \A g \in Guilds \ DOMAIN chat_sessions :
             (g \in DOMAIN chat_sessions' /\ ~IsResetOf(g)) =>
                /\ history'[chat_sessions'[g]] = 0
                /\ \E m \in Msgs : TakesLockFor(m, g)
       /\ \A m \in Msgs :
             /\ Enters(m) => session'[m] = chat_sessions'[msg'[m].guild]
             /\ (pc[m] \in InSection /\ pc'[m] \in InSection) =>
                   session'[m] = session[m]
      ]_vars

\* Two model calls have returned on the session of one guild while another
\* guild has a session of its own.
SessionAccumulatesWitness ==
    \E g, h \in DOMAIN chat_sessions :
        /\ g # h
        /\ history[chat_sessions[g]] = 2
        /\ last.kind = "reply"

\* C13: a step in which on_message handles a message with blank text and
\* no attachment (on arrival, or when it gets the lock after waiting)
\* leaves chat_sessions and the histories as they are, starts no model
\* call and broadcasts nothing.
EmptyMessageNoEffect ==
    [][\A m \in Msgs :
          ( \/ /\ pc[m] = "new" /\ pc'[m] # "new"
               /\ last'.kind = "arrive" /\ IsEmpty(last'.message)
            \/ /\ pc[m] = "waiting" /\ pc'[m] # "waiting"
               /\ IsEmpty(msg[m]) )
          => /\ pc'[m] \in {"waiting", "returned"}
             /\ UNCHANGED <<chat_sessions, history, broadcast_log, inflight>>
      ]_vars

\* ------------------------------------------------- decoding, by response
\* Raw responses of the model: JSON objects with and without a text and an
\* emotion member, of each kind of value, wrapped in the ways a reply
\* comes (alone, inside prose, in a JSON fence, in a JSON fence with braces
\* in the prose before it, in a plain fence), and responses without a
\* usable candidate.
TextMembers ==
    { <<>> } \cup { <<"\"text\"", ":">> \o v :
                      v \in { <<"\"hi\"">>, <<"5">>, <<"null">>, <<"[", "]">>,
                              <<"{", "}">> } }

EmotionMembers ==
    { <<>> } \cup { <<"\"emotion\"", ":">> \o v :
                      v \in { <<"\"smile\"">>, <<"\"zzz\"">>, <<"5">>, <<"null">>,
                              <<"[", "]">> } }

ObjectText(t, e) ==
    <<"{">> \o t \o (IF t # <<>> /\ e # <<>> THEN <<",">> ELSE <<>>) \o e
            \o <<"}">>

Wrappings(body) ==
    { body,
      <<"ok", " ">> \o body \o <<"\n", "ok">>,
      <<Fence, "json", "\n">> \o body \o <<"\n", Fence>>,
      <<"{", "ok", "}", " ", Fence, "json", "\n">> \o body \o <<"\n", Fence>>,
      <<Fence, "\n">> \o body \o <<"\n", Fence>> }

RawResponses ==
    UNION { Wrappings(ObjectText(t, e)) : t \in TextMembers, e \in EmotionMembers }
    \cup { <<>>,
           <<"ok">>,
           <<" ", "ok", "\n">>,
           <<Fence, "json", Fence>>,
           <<Fence, "json", " ", "\n", Fence>>,
           <<"ok", "\n", Fence, "json", "\n", Fence>>,
           <<Fence, "json", "\n", "ok", "\n", Fence>>,
           <<Fence, "json", "\n", "{", "\"text\"", ":", "\"hi\"", "\n", Fence>>,
           <<Fence, "json", "\n", "{", "\"text\"", ":", "\"hi\"", "}">>,
           <<Fence, "json", "[", "]", Fence>>,
           <<Fence, "json", "\"hi\"", Fence>>,
           <<"{", "\"text\"", ":", "\"hi\"">>,
           <<"}", "ok", "{">>,
           <<"{", "ok", "}">> }

\* The state in which the model call for the first message, a message of
\* guild 1, is running and one display is registered under "1": the state
\* after Connect(1), Recv(1, register "1"), Arrive(1, message),
\* TypingEnter(1, TRUE).
ModelCallRunning ==
    /\ clients_by_guild = ("1" :> {1})
    /\ client_to_guild = (1 :> "1")
    /\ wpc = [w \in Conns |-> IF w = 1 THEN "wait_closed" ELSE "idle"]
    /\ handler_guild = [w \in Conns |-> IF w = 1 THEN "1" ELSE "None"]
    /\ open = [w \in Conns |-> w = 1]
    /\ environ = 1
    /\ CHANNEL_ID = 1
    /\ chat_sessions = (1 :> 1)
    /\ history = (1 :> 0)
    /\ locked = TRUE
    /\ waiters = <<>>
    /\ pc = [m \in Msgs |-> IF m = 1 THEN "calling" ELSE "new"]
    /\ msg = [m \in Msgs |-> IF m = 1 THEN UserMessage(1, 1, <<"hi">>, 0)
                                       ELSE NoMsg]
    /\ session = [m \in Msgs |-> IF m = 1 THEN 1 ELSE 0]
    /\ err = [m \in Msgs |-> ""]
    /\ emitted = [m \in Msgs |-> IF m = 1 THEN <<"call">> ELSE <<>>]
    /\ inflight = {}
    /\ failed = {}
    /\ last = NoEvent
    /\ broadcast_log = <<>>

NextDecode == \E raw_response \in RawResponses : ModelReturn(1, raw_response)

SpecDecode == ModelCallRunning /\ [][NextDecode]_vars

\* The candidate as C14 describes it.
MarkerAt(raw, i) == i + 1 <= Len(raw) /\ raw[i] = Fence /\ raw[i + 1] = "json"

HasMarker(raw) == \E i \in 1..Len(raw) : MarkerAt(raw, i)

\* the text between the first JSON fence marker and the next fence (or the
\* end), trimmed
FencedBlock(raw) ==
    LET i == CHOOSE k \in 1..Len(raw) :
                 MarkerAt(raw, k) /\ \A j \in 1..(k - 1) : ~MarkerAt(raw, j)
        ends == {k \in (i + 2)..Len(raw) : raw[k] = Fence}
        stop == IF ends = {} THEN Len(raw) + 1
                ELSE CHOOSE k \in ends : \A j \in ends : k <= j
    IN Strip(SubSeq(raw, i + 2, stop - 1))

\* the text from the first "{" to the last "}"
BraceSpan(raw) ==
    LET opens == {k \in 1..Len(raw) : raw[k] = "{"}
        closes == {k \in 1..Len(raw) : raw[k] = "}"}
        lo == CHOOSE k \in opens : \A j \in opens : k <= j
        hi == CHOOSE k \in closes : \A j \in closes : k >= j
    IN IF opens # {} /\ closes # {} /\ lo < hi THEN SubSeq(raw, lo, hi)
       ELSE <<>>

Candidate(raw) == IF HasMarker(raw) THEN FencedBlock(raw) ELSE BraceSpan(raw)

ParsesAsObject(raw) ==
    /\ Candidate(raw) # <<>>
    /\ JsonLoads(Candidate(raw)).ok
    /\ JsonLoads(Candidate(raw)).v.t = "dict"

HasField(obj, key) == \E i \in 1..Len(obj.f) : obj.f[i][1] = key

Field(obj, key) == obj.f[CHOOSE i \in 1..Len(obj.f) : obj.f[i][1] = key][2]

FallbackText ==
    ( /\ last.kind = "reply"
      /\ \/ Candidate(last.raw) = <<>>
         \/ ~JsonLoads(Candidate(last.raw)).ok )
    => /\ last.broadcast
       /\ last.text \in { RawText(Strip(Remove(last.raw, JsonMarker))),
                          RawText(Strip(Remove(Remove(last.raw, JsonMarker),
                                               <<Fence>>))) }
       /\ last.sprite = "yuuka_neutral.png"

\* C16: the payload handed to broadcast_to_clients has a text that is a
\* string and a sprite that is one of the files of EMOTION_SPRITE_MAP.
PayloadShape ==
    (last.kind = "reply" /\ last.broadcast) =>
        /\ last.text.kind = "raw" \/ last.text.val.t = "str"
        /\ \E k \in DOMAIN EMOTION_SPRITE_MAP : last.sprite = EMOTION_SPRITE_MAP[k]

\* C17: in the step in which the model call for a message starts, a
\* display connection is registered under the guild of the message.
PresenceAtModelCall ==
    [][\A m \in Msgs :
          (pc[m] # "calling" /\ pc'[m] = "calling") =>
              \E w \in Conns : /\ wpc'[w] = "wait_closed"
                               /\ handler_guild'[w] = GuildStr(msg'[m].guild)
      ]_vars

\* the session of message m, a message inside the section, is no longer
\* the one bound to its guild
Replaced(m) ==
    /\ pc[m] \in InSection
    /\ session[m] # chat_sessions[msg[m].guild]

\* C18: a reset of guild g carried out while a call for g is inside the
\* section binds g to another object than the one the call holds and
\* leaves that object and the call alone; from then until the call leaves
\* the section the object bound to g has no turns; when the model call
\* returns, its turn goes to the object the call holds and the binding of
\* g is unchanged; a message that enters the section binds the object
\* bound to its guild at that moment.
ResetDuringCall ==
    [][/\ \A g \in Guilds : IsResetOf(g) =>
             /\ history'[chat_sessions'[g]] = 0
             /\ \A m \in Msgs : (pc[m] \in InSection /\ msg[m].guild = g) =>
                   /\ pc'[m] = pc[m]
                   /\ session'[m] = session[m]
                   /\ session[m] # chat_sessions'[g]
                   /\ history'[session[m]] = history[session[m]]
       /\ \A m \in Msgs : Replaced(m) =>
             /\ history[chat_sessions[msg[m].guild]] = 0
             /\ (last'.kind = "reply" /\ last'.m = m) =>
                   /\ chat_sessions' = chat_sessions
                   /\ history'[chat_sessions[msg[m].guild]] = 0
                   /\ session[m] \in DOMAIN history' =>
                         history'[session[m]] = history[session[m]] + 1
       /\ \A m \in Msgs :
             Enters(m) => session'[m] = chat_sessions'[msg'[m].guild]
      ]_vars

\* The model call of a message has returned after its guild was reset: the
\* turn is in the object the call holds, the object bound to the guild is
\* empty, and the next message waits for the lock.
ResetDuringCallWitness ==
    \E m, n \in Msgs :
        /\ last.kind = "reply" /\ last.m = m
        /\ Replaced(m)
        /\ history[session[m]] >= 1
        /\ history[chat_sessions[msg[m].guild]] = 0
        /\ pc[n] = "waiting" /\ msg[n].guild = msg[m].guild

\* C19: in every reachable state a connection is in the set of key k
\* exactly when client_to_guild maps it to k; a mapped connection is mapped
\* to the key its handler registered it with; a connection whose handler
\* has finished is in neither table.
MapsAgree ==
    /\ \A w \in Conns : \A k \in DOMAIN clients_by_guild \cup RegKeys :
          (k \in DOMAIN clients_by_guild /\ w \in clients_by_guild[k])
             <=> (w \in DOMAIN client_to_guild /\ client_to_guild[w] = k)
    /\ DOMAIN client_to_guild \subseteq Conns
    /\ \A w \in DOMAIN client_to_guild :
          /\ client_to_guild[w] = handler_guild[w]
          /\ Cardinality({k \in DOMAIN clients_by_guild :
                             w \in clients_by_guild[k]}) = 1
    /\ \A w \in Conns : wpc[w] # "wait_closed" => Unregistered(w)

\* One connection has just been torn down while another one, registered
\* under the other key, stays in both tables.
MapsAgreeWitness ==
    /\ last.kind = "teardown"
    /\ Unregistered(last.w)
    /\ \E v \in DOMAIN client_to_guild :
          client_to_guild[v] # last.key /\ v \in clients_by_guild[client_to_guild[v]]

\* ---------------------------------------------------------------- progress
\* The event loop runs every callback that is ready, and every awaited
\* call of on_message (attachment read, typing request, model call, send,
\* error report) returns or raises in the end.
Fairness ==
    /\ \A m \in Msgs : WF_vars(WakeUp(m))
    /\ \A m \in Msgs : WF_vars(AttachmentRead(m))
    /\ \A m \in Msgs : WF_vars(\E ok \in BOOLEAN : TypingEnter(m, ok))
    /\ \A m \in Msgs :
          WF_vars(ModelRaise(m)
                    \/ \E raw_response \in ModelResponses : ModelReturn(m, raw_response))
    /\ \A m \in Msgs, w \in Conns : WF_vars(SendDone(m, w))
    /\ \A m \in Msgs : WF_vars(GatherReturn(m))
    /\ \A m \in Msgs : WF_vars(GatherRaise(m))
    /\ \A m \in Msgs : WF_vars(ReportReturn(m))

\* The state of the program after the first connection sent a first
\* message that is not JSON: after Connect(1), Recv(1, not JSON) and a step
\* that records no event.
AfterBadHandshake ==
    /\ clients_by_guild = EmptyDict
    /\ client_to_guild = EmptyDict
    /\ wpc = [w \in Conns |-> IF w = 1 THEN "done" ELSE "idle"]
    /\ handler_guild = [w \in Conns |-> "None"]
    /\ open = [w \in Conns |-> FALSE]
    /\ environ = 1
    /\ CHANNEL_ID = 1
    /\ chat_sessions = EmptyDict
    /\ history = EmptyDict
    /\ locked = FALSE
    /\ waiters = <<>>
    /\ pc = [m \in Msgs |-> "new"]
    /\ msg = [m \in Msgs |-> NoMsg]
    /\ session = [m \in Msgs |-> 0]
    /\ err = [m \in Msgs |-> ""]
    /\ emitted = [m \in Msgs |-> <<>>]
    /\ inflight = {}
    /\ failed = {}
    /\ last = NoEvent
    /\ broadcast_log = <<>>

\* The program without the reset command, from that state, under Fairness.
SpecLive == AfterBadHandshake /\ [][Next]_vars /\ Fairness

====
